---------------------------- MODULE Spec2Model ----------------------------
(***************************************************************************)
(* Model of source/tools/SNN2MCU.py: the quantizer, the parameter          *)
(* extractor, the three memory encoders and the driver main().             *)
(*                                                                         *)
(* Representation.                                                         *)
(*  - A Python str is a sequence of one-character strings.                 *)
(*  - A float is an integer number of tenths (Den = 10): 0.9 is 9, -0.5 is *)
(*    -5.  2**bits * float_value is a multiplication by a power of two,    *)
(*    which is exact in binary floating point, and the product of a tenth  *)
(*    that is not itself exact lies at least 1/10 away from every integer, *)
(*    so int() of the float product equals the truncation of the rational  *)
(*    product computed here.                                               *)
(*  - param_dict is a record: the 'model_architecture' and                 *)
(*    'number_of_layers' entries with a presence flag each, and w, the     *)
(*    function from the 'l<l>_n<n>_w' key strings to weight vectors.       *)
(*  - A raised exception is the err field of a result.                     *)
(***************************************************************************)
EXTENDS Integers, Sequences, FiniteSets, TLC

VARIABLES pc, model, precision, param_dict, files, args, ret

vars == <<pc, model, precision, param_dict, files, args, ret>>

---------------------------------------------------------------------------
(* Bounds of the model. *)

\* quantizer: bit widths 1..MaxBits
MaxBits == 5
\* quantizer: float values -MaxTenths/10 .. MaxTenths/10
MaxTenths == 12
\* driver: number of named parameters of the loaded model
MaxParams == 3
\* encoders: number of layers of a hand-built Parameter Table
MaxLayers == 3
\* encoders: neurons per layer of a hand-built Parameter Table
MaxNeurons == 3
\* encoders: precisions 1..MaxPrecision
MaxPrecision == 8

\* denominator of the float representation (tenths)
Den == 10

---------------------------------------------------------------------------
(* Python built-ins used by the program. *)

Digits == <<"0", "1", "2", "3", "4", "5", "6", "7", "8", "9">>

IsDigit(c) == \E i \in 1..10 : Digits[i] = c

DigitValue(c) == (CHOOSE i \in 1..10 : Digits[i] = c) - 1

RECURSIVE StrNat(_)
\* str(n) for n >= 0
StrNat(n) ==
    IF n < 10 THEN <<Digits[n + 1]>>
    ELSE StrNat(n \div 10) \o <<Digits[(n % 10) + 1]>>

\* str(n) for an int
Str(n) == IF n < 0 THEN <<"-">> \o StrNat(-n) ELSE StrNat(n)

RECURSIVE IntOfDigits(_)
\* int(s) for a run of decimal digits
IntOfDigits(s) ==
    IF s = <<>> THEN 0
    ELSE 10 * IntOfDigits(SubSeq(s, 1, Len(s) - 1)) + DigitValue(s[Len(s)])

\* int(x) of the float x = num / den, den > 0: truncation toward zero
IntTrunc(num, den) ==
    IF num >= 0 THEN num \div den ELSE -((-num) \div den)

\* the mathematical floor of num / den, den > 0
Floor(num, den) == num \div den

RECURSIVE Pow2(_)
Pow2(b) == IF b = 0 THEN 1 ELSE 2 * Pow2(b - 1)

\* re.findall(r'\d+', name)[0]: the first maximal digit run; <<>> stands for
\* the empty match list (indexing it raises IndexError)
FirstDigitRun(name) ==
    IF \A i \in 1..Len(name) : ~IsDigit(name[i]) THEN <<>>
    ELSE LET first == CHOOSE i \in 1..Len(name) :
                          /\ IsDigit(name[i])
                          /\ \A j \in 1..(i - 1) : ~IsDigit(name[j])
             last  == CHOOSE k \in first..Len(name) :
                          /\ \A j \in first..k : IsDigit(name[j])
                          /\ (k = Len(name) \/ ~IsDigit(name[k + 1]))
         IN SubSeq(name, first, last)

\* sub in s
Contains(s, sub) ==
    \E i \in 1..(Len(s) - Len(sub) + 1) : SubSeq(s, i, i + Len(sub) - 1) = sub

\* s[:-1]
StripLast(s) == IF s = <<>> THEN <<>> ELSE SubSeq(s, 1, Len(s) - 1)

---------------------------------------------------------------------------
(* snn2mcu_value_cuantization *)

\* the quantizer with floor in place of int()
QuantFloor(number_of_bits, float_value, negatives_allowed) ==
    LET bits == IF negatives_allowed THEN number_of_bits - 1 ELSE number_of_bits
        fv   == IF ~negatives_allowed /\ 0 > float_value THEN 0 ELSE float_value
    IN Floor(Pow2(bits) * fv, Den)

\* the quantizer without the clamp of negative values
QuantNoClamp(number_of_bits, float_value, negatives_allowed) ==
    LET bits == IF negatives_allowed THEN number_of_bits - 1 ELSE number_of_bits
    IN IntTrunc(Pow2(bits) * float_value, Den)

snn2mcu_value_cuantization(number_of_bits, float_value, negatives_allowed) ==
    LET bits == IF negatives_allowed THEN number_of_bits - 1 ELSE number_of_bits
        fv   == IF ~negatives_allowed /\ 0 > float_value THEN 0 ELSE float_value
    IN IntTrunc(Pow2(bits) * fv, Den)

---------------------------------------------------------------------------
(* snn2mcu_param_dict_extractor *)

\* the dictionary key of neuron n of layer l
Key(l, n) == <<"l">> \o Str(l) \o <<"_", "n">> \o Str(n) \o <<"_", "w">>

\* param_dict = {}
EmptyDict ==
    [err                |-> "none",
     hasArch            |-> FALSE,
     model_architecture |-> <<>>,
     hasLayers          |-> FALSE,
     number_of_layers   |-> 0,
     w                  |-> [k \in {} |-> <<>>]]

\* try: param_dict[key].append(x)  except: param_dict[key] = [x]
AppendOrInit(w, key, x) ==
    IF key \in DOMAIN w THEN [w EXCEPT ![key] = Append(@, x)]
    ELSE (key :> <<x>>) @@ w

RECURSIVE AppendWeights(_, _, _, _)
\* for weight in neuron: ...   (from index i on)
AppendWeights(w, key, neuron, i) ==
    IF i > Len(neuron) THEN w
    ELSE AppendWeights(AppendOrInit(w, key, neuron[i]), key, neuron, i + 1)

RECURSIVE ProcessNeurons(_, _, _, _)
\* for neuron in param: ...   (from row neuron_id + 1 on; neuron_id counts
\* the rows already processed)
ProcessNeurons(pd, layer, param, neuron_id) ==
    IF neuron_id >= Len(param.rows) THEN pd
    ELSE IF param.dim = 1 THEN [pd EXCEPT !.err = "TypeError"]
    ELSE LET neuron == param.rows[neuron_id + 1]
             key    == Key(layer, neuron_id)
             pd1    == IF 1 = layer /\ 0 = neuron_id
                       THEN [pd EXCEPT !.hasArch = TRUE,
                                       !.model_architecture = <<Len(neuron)>>]
                       ELSE pd
             pd2    == [pd1 EXCEPT !.w = AppendWeights(@, key, neuron, 1)]
         IN ProcessNeurons(pd2, layer, param, neuron_id + 1)

\* param_dict['model_architecture'].append(len(param))
AppendLayer(pd, param) ==
    IF pd.err # "none" THEN pd
    ELSE IF ~pd.hasArch THEN [pd EXCEPT !.err = "KeyError"]
    ELSE [pd EXCEPT !.model_architecture = Append(@, Len(param.rows))]

Weight == <<"w", "e", "i", "g", "h", "t">>

\* the loop body with the layer index parsed only for weight parameters
ProcessParamLazy(pd, name, param) ==
    IF ~Contains(name, Weight) THEN pd
    ELSE IF FirstDigitRun(name) = <<>> THEN [pd EXCEPT !.err = "IndexError"]
    ELSE LET layer == IntOfDigits(FirstDigitRun(name))
         IN AppendLayer(ProcessNeurons(pd, layer, param, 0), param)

\* the body of  for name, param in model.named_parameters()
ProcessParam(pd, name, param) ==
    IF FirstDigitRun(name) = <<>> THEN [pd EXCEPT !.err = "IndexError"]
    ELSE LET layer == IntOfDigits(FirstDigitRun(name))
         IN IF Contains(name, Weight)
            THEN AppendLayer(ProcessNeurons(pd, layer, param, 0), param)
            ELSE pd

RECURSIVE ParamLoop(_, _, _)
\* for name, param in model.named_parameters(): ...   (from entry i on)
ParamLoop(pd, m, i) ==
    IF pd.err # "none" \/ i > Len(m) THEN pd
    ELSE ParamLoop(ProcessParam(pd, m[i].name, m[i].param), m, i + 1)

\* param_dict['number_of_layers'] = len(param_dict['model_architecture'])
SetNumberOfLayers(pd) ==
    IF pd.err # "none" THEN pd
    ELSE IF ~pd.hasArch THEN [pd EXCEPT !.err = "KeyError"]
    ELSE [pd EXCEPT !.hasLayers = TRUE,
                    !.number_of_layers = Len(pd.model_architecture)]

\* the weight of every neuron of the input layer: 0.9
InputWeight == 9

RECURSIVE InputLayer(_, _)
\* for n in range(param_dict['model_architecture'][0]): ...   (from n on)
InputLayer(pd, n) ==
    IF pd.err # "none" \/ n >= pd.model_architecture[1] THEN pd
    ELSE InputLayer([pd EXCEPT !.w = AppendOrInit(@, Key(0, n), InputWeight)],
                    n + 1)

snn2mcu_param_dict_extractor(m) ==
    InputLayer(SetNumberOfLayers(ParamLoop(EmptyDict, m, 1)), 0)

---------------------------------------------------------------------------
(* snn2mcu_weights, snn2mcu_thresholds, snn2mcu_leakages: the text each     *)
(* builds.  A result is [err, s]: the exception raised, if any, and the     *)
(* string so far.                                                           *)

RECURSIVE WeightLoop(_, _, _, _, _)
\* for w in param_dict[key]: ...   (from index i on)
WeightLoop(s, vec, prec, negatives_allowed, i) ==
    IF i > Len(vec) THEN s
    ELSE WeightLoop(
             s \o Str(snn2mcu_value_cuantization(prec, vec[i], negatives_allowed))
               \o <<",">>,
             vec, prec, negatives_allowed, i + 1)

RECURSIVE WeightNeuronLoop(_, _, _, _, _, _)
\* for n in range(param_dict['model_architecture'][l]): ...   (from n on)
WeightNeuronLoop(r, pd, prec, negatives_allowed, l, n) ==
    IF r.err # "none" \/ n >= pd.model_architecture[l + 1] THEN r
    ELSE IF Key(l, n) \notin DOMAIN pd.w THEN [r EXCEPT !.err = "KeyError"]
    ELSE WeightNeuronLoop(
             [r EXCEPT !.s = WeightLoop(@, pd.w[Key(l, n)], prec,
                                        negatives_allowed, 1)],
             pd, prec, negatives_allowed, l, n + 1)

RECURSIVE WeightLayerLoop(_, _, _, _, _)
\* for l in range(param_dict['number_of_layers']): ...   (from l on)
WeightLayerLoop(r, pd, prec, negatives_allowed, l) ==
    IF r.err # "none" \/ l >= pd.number_of_layers THEN r
    ELSE WeightLayerLoop(WeightNeuronLoop(r, pd, prec, negatives_allowed, l, 0),
                         pd, prec, negatives_allowed, l + 1)

\* the weights loop starting at layer 1, without the input layer
WeightsTextNoInput(pd, prec, negatives_allowed) ==
    LET r == WeightLayerLoop([err |-> "none", s |-> <<"{">>], pd, prec,
                             negatives_allowed, 1)
    IN IF r.err # "none" THEN r
       ELSE [r EXCEPT !.s = StripLast(@) \o <<"}">>]

\* string_memory of snn2mcu_weights
WeightsText(pd, prec, negatives_allowed) ==
    LET r == WeightLayerLoop([err |-> "none", s |-> <<"{">>], pd, prec,
                             negatives_allowed, 0)
    IN IF r.err # "none" THEN r
       ELSE [r EXCEPT !.s = StripLast(@) \o <<"}">>]

\* 'memory_initialization_radix=10;\n'
HeaderRadix ==
    <<"m", "e", "m", "o", "r", "y", "_", "i", "n", "i", "t", "i", "a",
      "l", "i", "z", "a", "t", "i", "o", "n", "_", "r", "a", "d", "i",
      "x", "=", "1", "0", ";", "\n">>

\* 'memory_initialization_vector='
HeaderVector ==
    <<"m", "e", "m", "o", "r", "y", "_", "i", "n", "i", "t", "i", "a",
      "l", "i", "z", "a", "t", "i", "o", "n", "_", "v", "e", "c", "t",
      "o", "r", "=">>

RECURSIVE ConstNeuronLoop(_, _, _, _)
\* for n in range(param_dict['model_architecture'][l]):
\*     string_memory += str(value); string_memory += ' '
ConstNeuronLoop(s, count, value, n) ==
    IF n >= count THEN s
    ELSE ConstNeuronLoop(s \o Str(value) \o <<" ">>, count, value, n + 1)

RECURSIVE ConstLayerLoop(_, _, _, _)
\* for l in range(param_dict['number_of_layers']): ...   (from l on)
ConstLayerLoop(s, pd, value, l) ==
    IF l >= pd.number_of_layers THEN s
    ELSE ConstLayerLoop(ConstNeuronLoop(s, pd.model_architecture[l + 1], value, 0),
                        pd, value, l + 1)

\* the constant-per-neuron artifact without the input layer's neurons
ConstTextNoInput(pd, value) ==
    HeaderRadix \o HeaderVector
        \o StripLast(ConstLayerLoop(<<>>, pd, value, 1)) \o <<";">>

\* the header and the vector of a constant-per-neuron artifact, as written
ConstText(pd, value) ==
    HeaderRadix \o HeaderVector
        \o StripLast(ConstLayerLoop(<<>>, pd, value, 0)) \o <<";">>

\* int((2**precision) - 1)
ThresholdValue(prec) == Pow2(prec) - 1

\* int(2**precision / 100)
LeakageValue(prec) == IntTrunc(Pow2(prec), 100)

\* the file contents written by snn2mcu_thresholds
ThresholdsText(pd, prec) == ConstText(pd, ThresholdValue(prec))

\* the file contents written by snn2mcu_leakages
LeakagesText(pd, prec) == ConstText(pd, LeakageValue(prec))

---------------------------------------------------------------------------
(* The inputs: the named parameters of the model stored at model_path.     *)
(* A 2-D tensor is its rows; a 1-D tensor is its elements.                 *)

\* 'fc1.weight'
FC1Weight ==
    <<"f", "c", "1", ".", "w", "e", "i", "g", "h", "t">>

\* 'fc1.bias'
FC1Bias ==
    <<"f", "c", "1", ".", "b", "i", "a", "s">>

\* 'fc2.weight'
FC2Weight ==
    <<"f", "c", "2", ".", "w", "e", "i", "g", "h", "t">>

\* 'fc3.weight'
FC3Weight ==
    <<"f", "c", "3", ".", "w", "e", "i", "g", "h", "t">>

\* 'lif.beta'
LifBeta ==
    <<"l", "i", "f", ".", "b", "e", "t", "a">>

\* 'out.weight'
OutWeight ==
    <<"o", "u", "t", ".", "w", "e", "i", "g", "h", "t">>

\* 'fc0.weight'
FC0Weight ==
    <<"f", "c", "0", ".", "w", "e", "i", "g", "h", "t">>

\* a weight matrix of 2 neurons with 3 inputs each
T23 == [dim |-> 2, rows |-> <<<<1, 2, 3>>, <<4, 5, 6>>>>]

\* a weight matrix of 1 neuron with 2 inputs
T12 == [dim |-> 2, rows |-> <<<<-5, 7>>>>]

\* a weight matrix of 1 neuron with 3 inputs
T13 == [dim |-> 2, rows |-> <<<<-3, 8, 2>>>>]

\* a vector of 2 elements
B2 == [dim |-> 1, rows |-> <<1, -2>>]

\* a vector of 1 element
B1 == [dim |-> 1, rows |-> <<9>>]

Entries ==
    { [name |-> FC1Weight, param |-> T23],
      [name |-> FC1Weight, param |-> T12],
      [name |-> FC1Bias,   param |-> B2],
      [name |-> FC2Weight, param |-> T12],
      [name |-> FC2Weight, param |-> T13],
      [name |-> FC3Weight, param |-> T12],
      [name |-> FC0Weight, param |-> T12],
      [name |-> OutWeight, param |-> T12],
      [name |-> LifBeta,   param |-> B1] }

Models == UNION { [1..n -> Entries] : n \in 0..MaxParams }

\* the values of --precision
Precisions == {1, 4, 8}

---------------------------------------------------------------------------
(* main *)

\* weights_file_path, weights_negatives_file_path, leakages_file_path,
\* thresholds_file_path (without out_dir)
WeightsFile == "init_weigthts.coe"

WeightsNegativesFile == "init_weigthts_negatives.coe"

LeakagesFile == "init_leakages.coe"

ThresholdsFile == "init_thresholds.coe"

FileNames == {WeightsFile, WeightsNegativesFile, LeakagesFile, ThresholdsFile}

Absent == [exists |-> FALSE, content |-> <<>>]

\* param_dict before its assignment
Unassigned == [EmptyDict EXCEPT !.err = "unassigned"]

NoArgs == [fn |-> "none"]

NoRet == [err |-> "none", s |-> <<>>]

Init ==
    /\ pc = "start"
    /\ model \in Models
    /\ precision \in Precisions
    /\ param_dict = Unassigned
    /\ files = [f \in FileNames |-> Absent]
    /\ args = NoArgs
    /\ ret = NoRet

\* the exception e raised inside the call of fn
Raised(fn, e) ==
    /\ pc' = "failed"
    /\ args' = [fn |-> fn]
    /\ ret' = [err |-> e, s |-> <<>>]

\* if not os.path.exists(out_dir): os.makedirs(out_dir)
MakeDirs ==
    /\ pc = "start"
    /\ \E ok \in BOOLEAN :
          IF ok THEN pc' = "load" /\ UNCHANGED <<args, ret>>
          ELSE Raised("os.makedirs", "OSError")
    /\ UNCHANGED <<model, precision, param_dict, files>>

\* model = torch.load(model_path, ...)
Load ==
    /\ pc = "load"
    /\ \E ok \in BOOLEAN :
          IF ok THEN pc' = "extract" /\ UNCHANGED <<args, ret>>
          ELSE Raised("torch.load", "OSError")
    /\ UNCHANGED <<model, precision, param_dict, files>>

\* param_dict = snn2mcu_param_dict_extractor(model)
Extract ==
    /\ pc = "extract"
    /\ LET r == snn2mcu_param_dict_extractor(model)
       IN IF r.err # "none"
          THEN /\ Raised("snn2mcu_param_dict_extractor", r.err)
               /\ param_dict' = param_dict
          ELSE /\ pc' = "weights"
               /\ param_dict' = r
               /\ UNCHANGED <<args, ret>>
    /\ UNCHANGED <<model, precision, files>>

\* snn2mcu_weights(file_path, param_dict, precision, negatives_allowed):
\* open(file_path, 'w') may fail; once open the file exists and is empty;
\* an exception in the loops leaves it so; otherwise the text is written
snn2mcu_weights(file_path, negatives_allowed, next) ==
    \E opened \in BOOLEAN :
        IF ~opened
        THEN Raised("open", "OSError") /\ files' = files
        ELSE LET r == WeightsText(param_dict, precision, negatives_allowed)
             IN IF r.err # "none"
                THEN /\ Raised("snn2mcu_weights", r.err)
                     /\ files' = [files EXCEPT ![file_path] =
                                      [exists |-> TRUE, content |-> <<>>]]
                ELSE /\ pc' = next
                     /\ files' = [files EXCEPT ![file_path] =
                                      [exists |-> TRUE, content |-> r.s]]
                     /\ UNCHANGED <<args, ret>>

\* snn2mcu_weights(weights_file_path, param_dict, precision)
Weights ==
    /\ pc = "weights"
    /\ snn2mcu_weights(WeightsFile, FALSE, "weights_negatives")
    /\ UNCHANGED <<model, precision, param_dict>>

\* snn2mcu_weights(weights_negatives_file_path, param_dict, precision, True)
WeightsNegatives ==
    /\ pc = "weights_negatives"
    /\ snn2mcu_weights(WeightsNegativesFile, TRUE, "done")
    /\ UNCHANGED <<model, precision, param_dict>>

Next == MakeDirs \/ Load \/ Extract \/ Weights \/ WeightsNegatives

Spec == Init /\ [][Next]_vars

---------------------------------------------------------------------------
(* The quantizer called on its own. *)

InitQuant ==
    /\ pc = "quant_call"
    /\ args \in [fn : {"snn2mcu_value_cuantization"},
                 number_of_bits : 1..MaxBits,
                 float_value : (-MaxTenths)..MaxTenths,
                 negatives_allowed : BOOLEAN]
    /\ ret = NoRet
    /\ model = <<>>
    /\ precision = 0
    /\ param_dict = Unassigned
    /\ files = [f \in FileNames |-> Absent]

Quantize ==
    /\ pc = "quant_call"
    /\ pc' = "quant_return"
    /\ ret' = snn2mcu_value_cuantization(args.number_of_bits, args.float_value,
                                         args.negatives_allowed)
    /\ UNCHANGED <<model, precision, param_dict, files, args>>

NextQuant == Quantize

SpecQuant == InitQuant /\ [][NextQuant]_vars

---------------------------------------------------------------------------
(* The encoders called on their own, on Parameter Tables that satisfy the  *)
(* data-model invariants: number_of_layers = len(model_architecture), one  *)
(* vector [0.9] per neuron of layer 0, and for l >= 1 one vector of length *)
(* model_architecture[l-1] per neuron of layer l.                          *)

Phases == {0, 1, 2}

\* weight i of neuron n of layer l of the table of a phase, in tenths
TableWeight(l, n, i, phase) == ((3 * l + 5 * n + 7 * i + 4 * phase) % 25) - 12

TableKeys(arch) ==
    { <<l, n>> \in (0..(Len(arch) - 1)) \X (0..MaxNeurons) : n < arch[l + 1] }

Table(arch, phase) ==
    [err                |-> "none",
     hasArch            |-> TRUE,
     model_architecture |-> arch,
     hasLayers          |-> TRUE,
     number_of_layers   |-> Len(arch),
     w                  |-> [k \in { Key(ln[1], ln[2]) : ln \in TableKeys(arch) } |->
                               LET ln == CHOOSE x \in TableKeys(arch) :
                                             Key(x[1], x[2]) = k
                               IN IF ln[1] = 0 THEN <<InputWeight>>
                                  ELSE [i \in 1..arch[ln[1]] |->
                                           TableWeight(ln[1], ln[2], i, phase)]]]

Archs == UNION { [1..n -> 0..MaxNeurons] : n \in 0..MaxLayers }

Tables == { Table(arch, phase) : arch \in Archs, phase \in Phases }

InitEncode ==
    /\ pc = "encode_call"
    /\ param_dict \in Tables
    /\ precision \in 1..MaxPrecision
    /\ args = NoArgs
    /\ ret = NoRet
    /\ model = <<>>
    /\ files = [f \in FileNames |-> Absent]

\* string_memory of snn2mcu_weights(file_path, param_dict, precision, b)
EncodeWeights ==
    /\ pc = "encode_call"
    /\ pc' = "encode_return"
    /\ \E b \in BOOLEAN :
          /\ args' = [fn |-> "snn2mcu_weights", negatives_allowed |-> b]
          /\ ret' = WeightsText(param_dict, precision, b)
    /\ UNCHANGED <<model, precision, param_dict, files>>

\* the file written by snn2mcu_thresholds(file_path, param_dict, precision)
EncodeThresholds ==
    /\ pc = "encode_call"
    /\ pc' = "encode_return"
    /\ args' = [fn |-> "snn2mcu_thresholds"]
    /\ ret' = [err |-> "none", s |-> ThresholdsText(param_dict, precision)]
    /\ UNCHANGED <<model, precision, param_dict, files>>

\* the file written by snn2mcu_leakages(file_path, param_dict, precision)
EncodeLeakages ==
    /\ pc = "encode_call"
    /\ pc' = "encode_return"
    /\ args' = [fn |-> "snn2mcu_leakages"]
    /\ ret' = [err |-> "none", s |-> LeakagesText(param_dict, precision)]
    /\ UNCHANGED <<model, precision, param_dict, files>>

NextEncode == EncodeWeights \/ EncodeThresholds \/ EncodeLeakages

SpecEncode == InitEncode /\ [][NextEncode]_vars

---------------------------------------------------------------------------
(* Reading an artifact back: what the properties below are stated with.    *)

Last(s) == s[Len(s)]

Count(s, c) == Cardinality({ i \in 1..Len(s) : s[i] = c })

RECURSIVE SplitAt(_, _)
\* the pieces of s between the occurrences of sep (an empty piece where two
\* separators meet or where s starts or ends with one)
SplitAt(s, sep) ==
    IF \A i \in 1..Len(s) : s[i] # sep THEN <<s>>
    ELSE LET i == CHOOSE k \in 1..Len(s) :
                      s[k] = sep /\ \A j \in 1..(k - 1) : s[j] # sep
         IN <<SubSeq(s, 1, i - 1)>> \o SplitAt(SubSeq(s, i + 1, Len(s)), sep)

\* the tokens of a separated list; the empty text holds none
Tokens(s, sep) == IF s = <<>> THEN <<>> ELSE SplitAt(s, sep)

\* a decimal integer: an optional sign and at least one digit
IsIntToken(t) ==
    /\ t # <<>>
    /\ LET d == IF t[1] = "-" THEN Tail(t) ELSE t
       IN d # <<>> /\ \A i \in 1..Len(d) : IsDigit(d[i])

IntOfToken(t) == IF t[1] = "-" THEN -IntOfDigits(Tail(t)) ELSE IntOfDigits(t)

\* the integers of a list of integer tokens
IntsOf(toks) == [i \in 1..Len(toks) |-> IntOfToken(toks[i])]

\* '{' integers separated by ',' '}'
WeightsGrammar(t) ==
    /\ Len(t) >= 2
    /\ t[1] = "{" /\ Count(t, "{") = 1
    /\ Last(t) = "}" /\ Count(t, "}") = 1
    /\ t[Len(t) - 1] # ","
    /\ LET toks == Tokens(SubSeq(t, 2, Len(t) - 1), ",")
       IN \A i \in 1..Len(toks) : IsIntToken(toks[i])

\* the integers of a weights artifact
WeightsOf(t) == IntsOf(Tokens(SubSeq(t, 2, Len(t) - 1), ","))

\* the two header lines, then count times value separated by single spaces,
\* then ';'
ConstGrammar(t, count, value) ==
    LET header == HeaderRadix \o HeaderVector
        rest   == SubSeq(t, Len(header) + 1, Len(t))
        toks   == Tokens(StripLast(rest), " ")
    IN /\ Len(t) > Len(header)
       /\ SubSeq(t, 1, Len(header)) = header
       /\ Last(rest) = ";" /\ Count(rest, ";") = 1
       /\ Count(rest, " ") = (IF count = 0 THEN 0 ELSE count - 1)
       /\ Len(toks) = count
       /\ \A i \in 1..count : IsIntToken(toks[i]) /\ IntOfToken(toks[i]) = value

RECURSIVE Sum(_)
Sum(q) == IF q = <<>> THEN 0 ELSE q[1] + Sum(Tail(q))

\* r is x / den truncated toward zero (den > 0)
IsTruncation(r, x, den) ==
    /\ (x >= 0 => r >= 0 /\ r * den <= x /\ x < (r + 1) * den)
    /\ (x < 0  => r <= 0 /\ r * den >= x /\ x > (r - 1) * den)

\* r is the floor of x / den (den > 0)
IsFloor(r, x, den) == r * den <= x /\ x < (r + 1) * den

NoDigit(name) == \A i \in 1..Len(name) : ~IsDigit(name[i])

\* the extractor was called
ExtractorCalled ==
    \/ pc \in {"weights", "weights_negatives", "done"}
    \/ pc = "failed" /\ args.fn \notin {"os.makedirs", "torch.load"}

\* the extractor returned a table
TableReturned == pc \in {"weights", "weights_negatives", "done", "failed"}
                 /\ param_dict.err = "none"

\* the keys of w that name a neuron of layer l: 'l<l>_n...'
LayerKeys(w, l) ==
    LET prefix == <<"l">> \o Str(l) \o <<"_", "n">>
    IN { k \in DOMAIN w : /\ Len(k) > Len(prefix)
                          /\ SubSeq(k, 1, Len(prefix)) = prefix }

\* the weight parameters of a model, in order
WeightEntries(m) == SelectSeq(m, LAMBDA e : Contains(e.name, Weight))

LayerOf(name) == IntOfDigits(FirstDigitRun(name))

\* the weight parameters are matrices named 1..L in order, L >= 1
NamedInOrder(m) ==
    LET ws == WeightEntries(m)
    IN /\ Len(ws) >= 1
       /\ \A i \in 1..Len(ws) :
             /\ ~NoDigit(ws[i].name)
             /\ LayerOf(ws[i].name) = i
             /\ ws[i].param.dim = 2
             /\ Len(ws[i].param.rows) >= 1

\* the fan-in of weight parameter i is the neuron count of parameter i - 1
FanInChained(m) ==
    LET ws == WeightEntries(m)
    IN \A i \in 2..Len(ws) : \A n \in 1..Len(ws[i].param.rows) :
           Len(ws[i].param.rows[n]) = Len(ws[i - 1].param.rows)

WellFormed(m) == NamedInOrder(m) /\ FanInChained(m)

RECURSIVE Flatten(_)
\* the rows of a matrix one after the other
Flatten(rows) == IF rows = <<>> THEN <<>> ELSE rows[1] \o Flatten(Tail(rows))

RECURSIVE FlattenAll(_)
\* the weights of the matrices of ws: layer, then neuron, then synapse
FlattenAll(ws) ==
    IF ws = <<>> THEN <<>> ELSE Flatten(ws[1].param.rows) \o FlattenAll(Tail(ws))

\* the integers the weights artifact of a well-formed model must hold
ExpectedWeights(m, bits, allow_negative) ==
    LET ws     == WeightEntries(m)
        inputs == Len(ws[1].param.rows[1])
        floats == [i \in 1..inputs |-> 9] \o FlattenAll(ws)
    IN [i \in 1..Len(floats) |->
           snn2mcu_value_cuantization(bits, floats[i], allow_negative)]

\* model_architecture[0] + sum over l >= 1 of
\* model_architecture[l] * model_architecture[l-1]
WeightCount(arch) ==
    arch[1] + Sum([l \in 1..(Len(arch) - 1) |-> arch[l + 1] * arch[l]])

---------------------------------------------------------------------------
(* C1 *)

\* C1 (as stated): a signed quantization of b >= 2 bits returns
\* floor(v * 2^(b-1)), also for negative v whose scaled product is no integer.
C1_SignedIsFloor ==
    (pc = "quant_return" /\ args.negatives_allowed /\ args.number_of_bits >= 2)
        => IsFloor(ret, args.float_value * Pow2(args.number_of_bits - 1), Den)

\* C1 (amended): a signed quantization of b >= 2 bits returns v * 2^(b-1)
\* truncated toward zero, with the sign preserved and no clamping: the floor
\* for v >= 0, the ceiling for v < 0.
C1_SignedIsTruncation ==
    (pc = "quant_return" /\ args.negatives_allowed /\ args.number_of_bits >= 2)
        => /\ IsTruncation(ret, args.float_value * Pow2(args.number_of_bits - 1),
                           Den)
           /\ (args.float_value >= 0 =>
                   IsFloor(ret, args.float_value * Pow2(args.number_of_bits - 1),
                           Den))

\* a negative value whose scaled product is no integer was quantized signed
C1_Witness ==
    /\ pc = "quant_return"
    /\ args.negatives_allowed
    /\ args.number_of_bits >= 2
    /\ args.float_value < 0
    /\ (args.float_value * Pow2(args.number_of_bits - 1)) % Den # 0
    /\ ret < 0

---------------------------------------------------------------------------
(* C2 *)

\* C2: an unsigned quantization of b >= 1 bits returns floor(max(v,0) * 2^b):
\* 0 for every negative v, and never a negative result.
C2_UnsignedIsFloorOfClamped ==
    (pc = "quant_return" /\ ~args.negatives_allowed /\ args.number_of_bits >= 1)
        => LET v == IF args.float_value > 0 THEN args.float_value ELSE 0
           IN /\ IsFloor(ret, v * Pow2(args.number_of_bits), Den)
              /\ ret >= 0
              /\ (args.float_value < 0 => ret = 0)

\* a negative value was quantized unsigned
C2_Witness ==
    /\ pc = "quant_return"
    /\ ~args.negatives_allowed
    /\ args.float_value < 0
    /\ ret = 0

---------------------------------------------------------------------------
(* C3 *)

\* C3: every table the extractor returns has number_of_layers =
\* len(model_architecture) and, for every position l >= 1, exactly
\* model_architecture[l] neuron vectors 'l<l>_n<n>_w', n from 0, each of
\* length model_architecture[l-1].
C3_TableStructure ==
    TableReturned =>
        LET arch == param_dict.model_architecture
        IN /\ param_dict.number_of_layers = Len(arch)
           /\ \A l \in 1..(Len(arch) - 1) :
                 /\ \A n \in 0..(arch[l + 1] - 1) :
                       /\ Key(l, n) \in DOMAIN param_dict.w
                       /\ Len(param_dict.w[Key(l, n)]) = arch[l]
                 /\ LayerKeys(param_dict.w, l) =
                        { Key(l, n) : n \in 0..(arch[l + 1] - 1) }

---------------------------------------------------------------------------
(* C4 *)

\* the file holds the weights text of the run's Parameter Table
EncodedFromTable(f, negatives_allowed) ==
    /\ files[f].exists
    /\ param_dict.err = "none"
    /\ files[f].content = WeightsText(param_dict, precision, negatives_allowed).s

\* C4: a run ends with all four artifacts, each encoded from the one
\* Parameter Table, or with no artifact file at all.
C4_AllOrNone ==
    pc \in {"done", "failed"} =>
        \/ \A f \in FileNames : ~files[f].exists
        \/ /\ EncodedFromTable(WeightsFile, FALSE)
           /\ EncodedFromTable(WeightsNegativesFile, TRUE)
           /\ files[ThresholdsFile].exists
           /\ files[ThresholdsFile].content = ThresholdsText(param_dict, precision)
           /\ files[LeakagesFile].exists
           /\ files[LeakagesFile].content = LeakagesText(param_dict, precision)

---------------------------------------------------------------------------
(* C5 *)

\* C5: the text of snn2mcu_weights is one '{', decimal integers separated by
\* commas, one '}', with no comma before the '}', for every table that
\* satisfies the data-model invariants, tables without any weight included.
C5_WeightsGrammar ==
    (pc = "encode_return" /\ args.fn = "snn2mcu_weights")
        => ret.err = "none" /\ WeightsGrammar(ret.s)

---------------------------------------------------------------------------
(* C6 *)

\* C6: for a well-formed model (weight matrices named 1..L in order, each
\* fan-in the neuron count of the matrix before it) a written weights
\* artifact holds, in order, quantize(0.9) model_architecture[0] times, then
\* quantize of every weight by layer, then neuron, then synapse:
\* model_architecture[0] + sum of model_architecture[l] *
\* model_architecture[l-1] integers.
C6_WeightsContentAndOrder ==
    (WellFormed(model) /\ TableReturned) =>
        \A f \in {WeightsFile, WeightsNegativesFile} :
            files[f].exists =>
                /\ WeightsGrammar(files[f].content)
                /\ WeightsOf(files[f].content) =
                       ExpectedWeights(model, precision, f = WeightsNegativesFile)
                /\ Len(WeightsOf(files[f].content)) =
                       WeightCount(param_dict.model_architecture)

\* 3 inputs, 2 hidden neurons with weights [[0.1,0.2,0.3],[0.4,0.5,0.6]],
\* then a bias and a second layer; 8 bits: both artifacts written, the
\* unsigned one starting 230,230,230 before the six layer-1 values
C6_Witness ==
    /\ pc = "done"
    /\ WellFormed(model)
    /\ Len(model) = 3
    /\ model[1] = [name |-> FC1Weight, param |-> T23]
    /\ model[2].name = FC1Bias
    /\ model[3].name = FC2Weight
    /\ precision = 8
    /\ SubSeq(WeightsOf(files[WeightsFile].content), 1, 9) =
           <<230, 230, 230, 25, 51, 76, 102, 128, 153>>
    /\ files[WeightsNegativesFile].exists

---------------------------------------------------------------------------
(* C7 *)

\* C7: the thresholds and the leakages artifacts hold, after the two header
\* lines, sum(model_architecture) integers, each 2^bits - 1 (thresholds) or
\* floor(2^bits / 100) (leakages), separated by single spaces and ended by
\* one ';' with no space before it.
C7_ConstantPerNeuron ==
    /\ (pc = "encode_return" /\ args.fn = "snn2mcu_thresholds") =>
           ConstGrammar(ret.s, Sum(param_dict.model_architecture),
                        Pow2(precision) - 1)
    /\ (pc = "encode_return" /\ args.fn = "snn2mcu_leakages") =>
           \E v \in 0..Pow2(precision) :
               /\ IsFloor(v, Pow2(precision), 100)
               /\ ConstGrammar(ret.s, Sum(param_dict.model_architecture), v)

\* architecture [3,2,1], 4 bits: six occurrences of 15
C7_Witness ==
    /\ pc = "encode_return"
    /\ args.fn = "snn2mcu_thresholds"
    /\ param_dict.model_architecture = <<3, 2, 1>>
    /\ precision = 4
    /\ ret.s = HeaderRadix \o HeaderVector
                 \o <<"1", "5", " ", "1", "5", " ", "1", "5", " ",
                      "1", "5", " ", "1", "5", " ", "1", "5", ";">>

---------------------------------------------------------------------------
(* C8 *)

\* C8: when a parameter name, of a weight or not, at any position, holds no
\* decimal digit, the extractor raises and returns no table.
C8_MalformedNameAborts ==
    (ExtractorCalled /\ \E i \in 1..Len(model) : NoDigit(model[i].name))
        => /\ pc = "failed"
           /\ args.fn = "snn2mcu_param_dict_extractor"
           /\ param_dict = Unassigned

\* a non-weight name without a digit after a valid weight matrix: the
\* extractor raised IndexError
C8_Witness ==
    /\ pc = "failed"
    /\ args.fn = "snn2mcu_param_dict_extractor"
    /\ ret.err = "IndexError"
    /\ Len(model) >= 2
    /\ model[1].name = FC1Weight
    /\ model[2].name = LifBeta

---------------------------------------------------------------------------
(* C9 *)

\* C9: when the weight matrix of a layer l >= 2 has a fan-in that differs
\* from the neuron count of the layer before it, the extractor fails instead
\* of returning a table.
C9_InconsistentFanInFails ==
    (ExtractorCalled /\ NamedInOrder(model) /\ ~FanInChained(model))
        => /\ pc = "failed"
           /\ args.fn = "snn2mcu_param_dict_extractor"

---------------------------------------------------------------------------
(* C10 *)

\* C10: every table the extractor returns holds the keys 'l0_n<n>_w' for
\* exactly n = 0..model_architecture[0]-1, each with the vector [0.9], for
\* any order of the parameters and also when a weight parameter is named
\* with layer index 0.
C10_InputLayer ==
    TableReturned =>
        LET arch == param_dict.model_architecture
        IN /\ \A n \in 0..(arch[1] - 1) :
                 /\ Key(0, n) \in DOMAIN param_dict.w
                 /\ param_dict.w[Key(0, n)] = <<9>>
           /\ LayerKeys(param_dict.w, 0) = { Key(0, n) : n \in 0..(arch[1] - 1) }
           /\ \E i \in 1..Len(model) :
                 /\ Contains(model[i].name, Weight)
                 /\ LayerOf(model[i].name) = 1
                 /\ arch[1] = Len(model[i].param.rows[1])

===========================================================================
